---- MODULE Spec2Model ----
(***************************************************************************)
(* Model of the TextOverlay node (src/nodes.py): hex colour parsing,       *)
(* greedy word wrapping, origin placement, the per-instance layout cache   *)
(* of draw_text and the single/batch dispatch of batch_process.            *)
(*                                                                         *)
(* Representation choices                                                  *)
(*  - a Python str is a sequence of one-character strings;                 *)
(*  - an attribute that may be None is <<>> (None) or <<v>> (a value v);   *)
(*  - stroke_opacity is held in tenths (schema step 0.1) and               *)
(*    stroke_thickness in twentieths (schema step 0.05);                   *)
(*  - coordinates are held in half pixels, so that the true division       *)
(*    `/ 2` of the centre/middle alignment is exact.                       *)
(***************************************************************************)
EXTENDS Integers, Sequences, FiniteSets, TLC

VARIABLES _loaded_font, _full_text, _x, _y, op, calls, prev

vars == <<_loaded_font, _full_text, _x, _y, op, calls, prev>>

None == <<>>
Some(v) == <<v>>
Val(o) == o[1]

(***************************************************************************)
(* Bounds of the model                                                     *)
(***************************************************************************)
MaxTextLen == 5
MaxBatch == 3
MaxFontSize == 12

(***************************************************************************)
(* Units                                                                   *)
(***************************************************************************)
OpacityDen == 10
ThicknessDen == 20
Half == 2

(***************************************************************************)
(* Python str primitives                                                   *)
(***************************************************************************)
IsSpace(c) == c \in {" ", "\n"}

RECURSIVE LStrip(_)
LStrip(s) == IF s = <<>> THEN <<>>
             ELSE IF IsSpace(Head(s)) THEN LStrip(Tail(s)) ELSE s

RECURSIVE RStrip(_)
RStrip(s) == IF s = <<>> THEN <<>>
             ELSE IF IsSpace(s[Len(s)]) THEN RStrip(SubSeq(s, 1, Len(s) - 1)) ELSE s

Strip(s) == RStrip(LStrip(s))

RECURSIVE LStripChar(_, _)
LStripChar(s, c) == IF s = <<>> THEN <<>>
                    ELSE IF Head(s) = c THEN LStripChar(Tail(s), c) ELSE s

RECURSIVE ReplaceNL(_)
ReplaceNL(s) == IF s = <<>> THEN <<>>
                ELSE IF Head(s) = "\n" THEN <<"\n", " ">> \o ReplaceNL(Tail(s))
                ELSE <<Head(s)>> \o ReplaceNL(Tail(s))

RECURSIVE SplitFrom(_, _, _)
SplitFrom(s, sep, cur) ==
    IF s = <<>> THEN <<cur>>
    ELSE IF Head(s) = sep THEN <<cur>> \o SplitFrom(Tail(s), sep, <<>>)
    ELSE SplitFrom(Tail(s), sep, Append(cur, Head(s)))

Split(s, sep) == SplitFrom(s, sep, <<>>)

RECURSIVE Join(_, _)
Join(parts, sep) ==
    IF parts = <<>> THEN <<>>
    ELSE IF Len(parts) = 1 THEN parts[1]
    ELSE parts[1] \o <<sep>> \o Join(Tail(parts), sep)

Contains(s, c) == \E i \in DOMAIN s : s[i] = c

(***************************************************************************)
(* Font backend (external collaborator): loading, measuring, bounding box  *)
(***************************************************************************)
FontsDir == {"a.ttf"}
SystemFonts == {"sys.ttf"}

LoadFont(font, font_size) ==
    IF font \in FontsDir THEN [name |-> font, size |-> font_size]
    ELSE IF font \in SystemFonts THEN [name |-> font, size |-> font_size]
    ELSE [name |-> "default", size |-> font_size]

Advance(c) == IF c = "W" THEN 3 ELSE 1

RECURSIVE TextLength(_, _)
TextLength(s, font) ==
    IF s = <<>> THEN 0
    ELSE Advance(Head(s)) * font.size + TextLength(Tail(s), font)

Max(a, b) == IF a >= b THEN a ELSE b

RECURSIVE MaxLineLength(_, _)
MaxLineLength(lines, font) ==
    IF lines = <<>> THEN 0
    ELSE Max(TextLength(lines[1], font), MaxLineLength(Tail(lines), font))

MultilineTextBBox(text, font, stroke_width, align, spacing) ==
    LET lines == Split(text, "\n")
        n == Len(lines)
    IN [left |-> 0 - stroke_width,
        top |-> font.size - stroke_width,
        right |-> MaxLineLength(lines, font) + stroke_width,
        bottom |-> font.size + n * 2 * font.size + (n - 1) * spacing + stroke_width]

(***************************************************************************)
(* hex_to_rgba                                                             *)
(***************************************************************************)
HexChars == {"0", "1", "2", "3", "4", "5", "6", "7", "8", "9",
             "a", "b", "c", "d", "e", "f", "A", "B", "C", "D", "E", "F"}

HexVal(c) ==
    CASE c = "0" -> 0 [] c = "1" -> 1 [] c = "2" -> 2 [] c = "3" -> 3
      [] c = "4" -> 4 [] c = "5" -> 5 [] c = "6" -> 6 [] c = "7" -> 7
      [] c = "8" -> 8 [] c = "9" -> 9
      [] c \in {"a", "A"} -> 10 [] c \in {"b", "B"} -> 11
      [] c \in {"c", "C"} -> 12 [] c \in {"d", "D"} -> 13
      [] c \in {"e", "E"} -> 14 [] c \in {"f", "F"} -> 15

RECURSIVE DoubleChars(_)
DoubleChars(s) == IF s = <<>> THEN <<>>
                  ELSE <<Head(s), Head(s)>> \o DoubleChars(Tail(s))

ExpandHex(h) == IF Len(h) \in {3, 4} THEN DoubleChars(h) ELSE h

Byte(h, i) == 16 * HexVal(h[i]) + HexVal(h[i + 1])

AlphaRounded(opacity) == (255 * opacity + OpacityDen \div 2) \div OpacityDen

AlphaFromOpacity(opacity) == (255 * opacity) \div OpacityDen

ValueError == [error |-> "ValueError"]

hex_to_rgba(hex_color, opacity) ==
    LET stripped == LStripChar(hex_color, "#")
        h == ExpandHex(stripped)
    IN IF Len(stripped) \notin {3, 4, 6, 8} THEN ValueError
       ELSE IF \E i \in DOMAIN h : h[i] \notin HexChars THEN ValueError
       ELSE [error |-> "",
             r |-> Byte(h, 1), g |-> Byte(h, 3), b |-> Byte(h, 5),
             a |-> IF Len(h) = 8 THEN Byte(h, 7) ELSE AlphaFromOpacity(opacity)]

(***************************************************************************)
(* Word wrapping (draw_text, the loop over words)                          *)
(*                                                                         *)
(* The loop state carries, beside the code's text_lines and line, the      *)
(* indexes of the words put on each line (tokens, cur): history kept for   *)
(* stating properties, never read by the wrapping itself.                  *)
(***************************************************************************)
Words(text) == Split(ReplaceNL(text), " ")

ExtraLineAfterStrip(word) == Contains(Strip(word), "\n")

ExtraLine(word) == Contains(word, "\n")

Fits(line, word, font, max_width) == TextLength(line \o word, font) < max_width

WrapWord(st, raw, i, font, max_width) ==
    LET extra_line == ExtraLine(raw)
        word == Strip(raw)
        placed == IF Fits(st.line, word, font, max_width)
                  THEN [st EXCEPT !.line = st.line \o word \o <<" ">>,
                                  !.cur = Append(st.cur, i)]
                  ELSE [text_lines |-> Append(st.text_lines, Strip(st.line)),
                        line |-> word \o <<" ">>,
                        tokens |-> Append(st.tokens, st.cur),
                        cur |-> <<i>>]
    IN IF extra_line
       THEN [text_lines |-> Append(placed.text_lines, Strip(placed.line)),
             line |-> <<>>,
             tokens |-> Append(placed.tokens, placed.cur),
             cur |-> <<>>]
       ELSE placed

RECURSIVE WrapFrom(_, _, _, _, _)
WrapFrom(st, words, i, font, max_width) ==
    IF i > Len(words) THEN st
    ELSE WrapFrom(WrapWord(st, words[i], i, font, max_width), words, i + 1, font, max_width)

WrapText(text, font, max_width) ==
    LET words == Words(text)
        st == WrapFrom([text_lines |-> <<>>, line |-> <<>>, tokens |-> <<>>, cur |-> <<>>],
                       words, 1, font, max_width)
    IN [text_lines |-> Append(st.text_lines, Strip(st.line)),
        tokens |-> Append(st.tokens, st.cur)]

MaxWidth(image, padding) == image.width - 2 * padding

(***************************************************************************)
(* Stroke width and origin (draw_text)                                     *)
(***************************************************************************)
Trunc(num, den) == IF num >= 0 THEN num \div den ELSE 0 - ((0 - num) \div den)

BBoxStrokeWidth(font_size, stroke_thickness) ==
    Trunc(font_size * stroke_thickness, ThicknessDen * 2)

DrawStrokeWidthNoHalf(font_size, stroke_thickness) ==
    Trunc(font_size * stroke_thickness, ThicknessDen)

DrawStrokeWidth(font_size, stroke_thickness) ==
    Trunc(font_size * stroke_thickness, ThicknessDen * 2)

OriginXFloorDiv(bbox, image, padding, horizontal_alignment, x_shift) ==
    (CASE horizontal_alignment = "left" -> Half * padding
       [] horizontal_alignment = "center" ->
              Half * ((image.width - (bbox.right - bbox.left)) \div 2)
       [] horizontal_alignment = "right" ->
              Half * (image.width - (bbox.right - bbox.left) - padding))
    + Half * x_shift

OriginX(bbox, image, padding, horizontal_alignment, x_shift) ==
    (CASE horizontal_alignment = "left" -> Half * padding
       [] horizontal_alignment = "center" -> image.width - (bbox.right - bbox.left)
       [] horizontal_alignment = "right" ->
              Half * (image.width - (bbox.right - bbox.left) - padding))
    + Half * x_shift

OriginY(bbox, image, padding, vertical_alignment, y_shift) ==
    (CASE vertical_alignment = "middle" -> image.height - (bbox.bottom - bbox.top)
       [] vertical_alignment = "top" -> Half * padding
       [] vertical_alignment = "bottom" ->
              Half * (image.height - (bbox.bottom - bbox.top) - padding))
    + Half * y_shift

(***************************************************************************)
(* draw_text                                                               *)
(*                                                                         *)
(* `a` holds the twelve arguments text .. line_spacing; stroke_opacity and *)
(* use_cache are the thirteenth and fourteenth positional parameters.      *)
(* The result is the instance after the call and a record of the call.     *)
(***************************************************************************)
RecomputeOnlyWhenEmpty(cached, use_cache) == cached = None

Recompute(cached, use_cache) == cached = None \/ use_cache = FALSE

draw_text(self, image, a, stroke_opacity, use_cache) ==
    LET load == Recompute(self._loaded_font, use_cache)
        font == IF load THEN LoadFont(a.font, a.font_size) ELSE Val(self._loaded_font)
        wrap == Recompute(self._full_text, use_cache)
        full_text == IF wrap
                     THEN Join(WrapText(a.text, font, MaxWidth(image, a.padding)).text_lines, "\n")
                     ELSE Val(self._full_text)
        place == self._x = None \/ self._y = None \/ use_cache = FALSE
        bbox_stroke == BBoxStrokeWidth(a.font_size, a.stroke_thickness)
        bbox == MultilineTextBBox(full_text, font, bbox_stroke,
                                  a.horizontal_alignment, a.line_spacing)
        x == IF place
             THEN OriginX(bbox, image, a.padding, a.horizontal_alignment, a.x_shift)
             ELSE Val(self._x)
        y == IF place
             THEN OriginY(bbox, image, a.padding, a.vertical_alignment, a.y_shift)
             ELSE Val(self._y)
        fill_color == hex_to_rgba(a.fill_color_hex, OpacityDen)
        stroke_color == hex_to_rgba(a.stroke_color_hex, stroke_opacity)
        raised == fill_color = ValueError \/ stroke_color = ValueError
    IN [self |-> [_loaded_font |-> Some(font), _full_text |-> Some(full_text),
                  _x |-> Some(x), _y |-> Some(y)],
        raised |-> raised,
        call |-> [image |-> image, a |-> a,
                  stroke_opacity |-> stroke_opacity, use_cache |-> use_cache,
                  before |-> self,
                  loaded |-> load, wrapped |-> wrap, placed |-> place,
                  bbox |-> IF place THEN Some([box |-> bbox, stroke_width |-> bbox_stroke])
                           ELSE None,
                  draw |-> IF raised THEN None
                           ELSE Some([xy |-> <<x, y>>, text |-> full_text,
                                      fill |-> fill_color, stroke_fill |-> stroke_color,
                                      stroke_width |-> DrawStrokeWidth(a.font_size,
                                                                       a.stroke_thickness),
                                      font |-> font,
                                      align |-> a.horizontal_alignment,
                                      spacing |-> a.line_spacing])]]

(***************************************************************************)
(* batch_process                                                           *)
(***************************************************************************)
BoolAsNumber(b) == IF b THEN OpacityDen ELSE 0

BatchDrawArgs(a, use_cache) ==
    [stroke_opacity |-> BoolAsNumber(use_cache), use_cache |-> FALSE]

RECURSIVE BatchLoop(_, _, _, _, _, _)
BatchLoop(self, images, i, a, use_cache, log) ==
    IF i > Len(images) THEN [self |-> self, calls |-> log]
    ELSE LET p == BatchDrawArgs(a, use_cache)
             r == draw_text(self, images[i], a, p.stroke_opacity, p.use_cache)
         IN IF r.raised THEN [self |-> r.self, calls |-> Append(log, r.call)]
            ELSE BatchLoop(r.self, images, i + 1, a, TRUE, Append(log, r.call))

batch_process(self, batch, images, a) ==
    IF ~batch
    THEN LET r == draw_text(self, images[1], a, a.stroke_opacity, FALSE)
         IN [self |-> r.self, calls |-> <<r.call>>]
    ELSE BatchLoop(self, images, 1, a, FALSE, <<>>)

(***************************************************************************)
(* Inputs                                                                  *)
(***************************************************************************)
SeqsUpTo(S, n) == UNION {[1..k -> S] : k \in 0..n}

BaseStyle ==
    [text |-> <<"a">>, font_size |-> 1, font |-> "a.ttf",
     fill_color_hex |-> <<"#", "F", "F", "F", "F", "F", "F">>,
     stroke_color_hex |-> <<"#", "0", "0", "0", "0", "0", "0">>,
     stroke_thickness |-> 4, padding |-> 1,
     horizontal_alignment |-> "center", vertical_alignment |-> "bottom",
     x_shift |-> 0, y_shift |-> 0, line_spacing |-> 4, stroke_opacity |-> 4]

Canvas(w, h) == [width |-> w, height |-> h, pixels |-> "blank"]

MainStyles ==
    {[BaseStyle EXCEPT !.text = t, !.stroke_color_hex = <<"#", "0", "0", "0">>,
                       !.stroke_opacity = o] :
        t \in {<<"a", " ", "W">>, <<"W", "\n", "a">>},
        o \in {4, OpacityDen}}

MainCanvases == {Canvas(6, 8), Canvas(9, 8)}

WrapInputs ==
    {[image |-> Canvas(w, 8), a |-> [BaseStyle EXCEPT !.text = t, !.padding = p]] :
        w \in {2, 5}, p \in {0, 1, 2}, t \in SeqsUpTo({"a", "W", " ", "\n"}, MaxTextLen)}

HexStrings ==
    UNION {[1..k -> {"1", "a", "F"}] : k \in {2, 3, 4}}
    \cup UNION {[1..k -> {"1", "F"}] : k \in {5, 6, 7, 8}}

ColorInputs ==
    {[image |-> Canvas(9, 8),
      a |-> [BaseStyle EXCEPT !.stroke_color_hex = pre \o h, !.stroke_opacity = o,
                              !.fill_color_hex = f]] :
        pre \in {<<>>, <<"#">>},
        h \in HexStrings,
        o \in 0..OpacityDen,
        f \in {<<"#", "F", "F", "F", "F", "F", "F">>, <<"1", "a", "F", "8">>}}

GeometryInputs ==
    {[image |-> Canvas(w, h),
      a |-> [BaseStyle EXCEPT !.text = t, !.padding = p,
                              !.horizontal_alignment = ha, !.vertical_alignment = va,
                              !.x_shift = xs, !.y_shift = ys]] :
        w \in {6, 9}, h \in {8, 11}, p \in {0, 1, 3},
        ha \in {"left", "center", "right"}, va \in {"top", "middle", "bottom"},
        xs \in {-2, 0, 1}, ys \in {-1, 0},
        t \in {<<"a">>, <<"a", " ", "W">>, <<"W", "\n", "a">>}}

StrokeInputs ==
    {[image |-> Canvas(9, 8),
      a |-> [BaseStyle EXCEPT !.font_size = fs, !.stroke_thickness = st]] :
        fs \in 1..MaxFontSize, st \in 0..ThicknessDen}

LayoutInputs == GeometryInputs \cup StrokeInputs

(***************************************************************************)
(* State machine                                                           *)
(*   _loaded_font, _full_text, _x, _y : the instance's attributes          *)
(*   op    : the operation invoked last (or, in the one-call                *)
(*           specifications, the call about to be made)                    *)
(*   calls : the draw_text calls that operation made, in order             *)
(*   prev  : the arguments of the draw_text call made before them          *)
(***************************************************************************)
Self == [_loaded_font |-> _loaded_font, _full_text |-> _full_text, _x |-> _x, _y |-> _y]

Arguments(c) == [image |-> c.image, a |-> c.a, stroke_opacity |-> c.stroke_opacity]

Fresh ==
    /\ _loaded_font = None
    /\ _full_text = None
    /\ _x = None
    /\ _y = None

Init ==
    /\ Fresh
    /\ op = None
    /\ calls = <<>>
    /\ prev = None

Becomes(self) ==
    /\ _loaded_font' = self._loaded_font
    /\ _full_text' = self._full_text
    /\ _x' = self._x
    /\ _y' = self._y

Remember == prev' = IF calls = <<>> THEN prev ELSE Some(Arguments(calls[Len(calls)]))

DrawText ==
    \E image \in MainCanvases, a \in MainStyles, use_cache \in BOOLEAN :
        LET r == draw_text(Self, image, a, a.stroke_opacity, use_cache)
        IN /\ Becomes(r.self)
           /\ op' = Some([name |-> "draw_text", batch |-> FALSE, images |-> <<image>>,
                          a |-> a, use_cache |-> use_cache])
           /\ calls' = <<r.call>>
           /\ Remember

BatchProcessSingle ==
    \E image \in MainCanvases, a \in MainStyles :
        LET r == batch_process(Self, FALSE, <<image>>, a)
        IN /\ Becomes(r.self)
           /\ op' = Some([name |-> "batch_process", batch |-> FALSE, images |-> <<image>>,
                          a |-> a, use_cache |-> FALSE])
           /\ calls' = r.calls
           /\ Remember

BatchProcessBatch ==
    \E image \in MainCanvases, a \in MainStyles, n \in 1..MaxBatch :
        LET images == [i \in 1..n |-> image]
            r == batch_process(Self, TRUE, images, a)
        IN /\ Becomes(r.self)
           /\ op' = Some([name |-> "batch_process", batch |-> TRUE, images |-> images,
                          a |-> a, use_cache |-> FALSE])
           /\ calls' = r.calls
           /\ Remember

Next == DrawText \/ BatchProcessSingle \/ BatchProcessBatch

Spec == Init /\ [][Next]_vars

(***************************************************************************)
(* One draw_text call on a fresh instance, its arguments drawn by Init     *)
(***************************************************************************)
Pending(inputs) ==
    /\ Fresh
    /\ \E i \in inputs :
          op = Some([name |-> "draw_text", batch |-> FALSE, images |-> <<i.image>>,
                     a |-> i.a, use_cache |-> FALSE])
    /\ calls = <<>>
    /\ prev = None

ApplyDrawText ==
    /\ op # None
    /\ calls = <<>>
    /\ LET o == Val(op)
           r == draw_text(Self, o.images[1], o.a, o.a.stroke_opacity, o.use_cache)
       IN /\ Becomes(r.self)
          /\ calls' = <<r.call>>
    /\ UNCHANGED <<op, prev>>

InitWrap == Pending(WrapInputs)
SpecWrap == InitWrap /\ [][ApplyDrawText]_vars

InitColor == Pending(ColorInputs)
SpecColor == InitColor /\ [][ApplyDrawText]_vars

InitLayout == Pending(LayoutInputs)
SpecLayout == InitLayout /\ [][ApplyDrawText]_vars

(***************************************************************************)
(* Properties                                                              *)
(***************************************************************************)
Invoked == op # None /\ calls # <<>>

IsBatchProcess == Invoked /\ Val(op).name = "batch_process"

Layout(d) == [font |-> d.font, text |-> d.text, xy |-> d.xy]

EmptyCache == [_loaded_font |-> None, _full_text |-> None, _x |-> None, _y |-> None]

FreshLayout(c) ==
    Layout(Val(draw_text(EmptyCache, c.image, c.a, c.stroke_opacity, FALSE).call.draw))

CachedLayout(self) ==
    [font |-> Val(self._loaded_font), text |-> Val(self._full_text),
     xy |-> <<Val(self._x), Val(self._y)>>]

RoundHalfEven(num, den) ==
    LET q == num \div den
        r == num % den
    IN IF 2 * r < den THEN q
       ELSE IF 2 * r > den THEN q + 1
       ELSE IF q % 2 = 0 THEN q ELSE q + 1

\* C1: in a batch of N >= 2 identical canvases every canvas is drawn with the
\* same wrapped text, the same origin, the same fill colour and the same
\* stroke colour, so the N outputs are pixel-identical.
C1_BatchDrawsIdentical ==
    (IsBatchProcess /\ Val(op).batch /\ Len(Val(op).images) >= 2) =>
        /\ Len(calls) = Len(Val(op).images)
        /\ \A i, j \in DOMAIN calls :
              /\ calls[i].draw # None
              /\ calls[j].draw # None
              /\ Val(calls[i].draw).text = Val(calls[j].draw).text
              /\ Val(calls[i].draw).xy = Val(calls[j].draw).xy
              /\ Val(calls[i].draw).fill = Val(calls[j].draw).fill
              /\ Val(calls[i].draw).stroke_fill = Val(calls[j].draw).stroke_fill

\* C2: batch_process calls draw_text with use_cache = False for the first image
\* of a batch and use_cache = True for every later one, so the font is loaded,
\* the text wrapped and the origin computed once per batch; for a single image
\* use_cache is False.
C2_UseCachePerImage ==
    IsBatchProcess =>
        IF Val(op).batch
        THEN \A i \in DOMAIN calls :
                /\ calls[i].use_cache = (i > 1)
                /\ calls[i].loaded = (i = 1)
                /\ calls[i].wrapped = (i = 1)
                /\ calls[i].placed = (i = 1)
        ELSE calls[1].use_cache = FALSE

\* C3: in every render reached through batch_process, single image or batch,
\* the stroke colour drawn is hex_to_rgba(stroke_color_hex, stroke_opacity) for
\* the stroke_opacity the caller gave batch_process, and the fill colour is
\* hex_to_rgba(fill_color_hex) with opacity 1.0.
C3_StrokeUsesCallerOpacity ==
    IsBatchProcess =>
        \A i \in DOMAIN calls :
            calls[i].draw # None =>
                /\ Val(calls[i].draw).stroke_fill =
                       hex_to_rgba(Val(op).a.stroke_color_hex, Val(op).a.stroke_opacity)
                /\ Val(calls[i].draw).fill =
                       hex_to_rgba(Val(op).a.fill_color_hex, OpacityDen)

(***************************************************************************)
(* Wrapping of the call made under SpecWrap                                *)
(***************************************************************************)
TheCall == calls[1]

TheMaxWidth == MaxWidth(TheCall.image, TheCall.a.padding)

TheWords == Words(TheCall.a.text)

TheWrap == WrapText(TheCall.a.text, Val(_loaded_font), TheMaxWidth)

Measure(s) == TextLength(s, Val(_loaded_font))

RECURSIVE Flatten(_)
Flatten(ss) == IF ss = <<>> THEN <<>> ELSE Head(ss) \o Flatten(Tail(ss))

LineText(toks) == Strip(Join([k \in DOMAIN toks |-> Strip(TheWords[toks[k]])], " "))

\* The words recorded for each line are the words of the text, in order, and
\* each line of the wrapped text is made of exactly the words recorded for it.
WordsAccounted ==
    /\ _full_text = Some(Join(TheWrap.text_lines, "\n"))
    /\ Len(TheWrap.tokens) = Len(TheWrap.text_lines)
    /\ Flatten(TheWrap.tokens) = [i \in DOMAIN TheWords |-> i]
    /\ \A j \in DOMAIN TheWrap.tokens : TheWrap.text_lines[j] = LineText(TheWrap.tokens[j])

\* C4: every line of the wrapped text is narrower than max_width or consists
\* of exactly one word; a word at least max_width wide is alone on its line.
C4_LinesFitOrSingleWord ==
    Invoked =>
        /\ WordsAccounted
        /\ \A j \in DOMAIN TheWrap.text_lines :
              \/ Measure(TheWrap.text_lines[j]) < TheMaxWidth
              \/ Len(TheWrap.tokens[j]) = 1
        /\ \A i \in DOMAIN TheWords :
              Measure(Strip(TheWords[i])) >= TheMaxWidth =>
                  \E j \in DOMAIN TheWrap.tokens : TheWrap.tokens[j] = <<i>>

Breaks == {i \in DOMAIN TheWords : Contains(TheWords[i], "\n")}

BreakKept(i) ==
    \E j, k \in DOMAIN TheWrap.tokens :
        /\ j < k
        /\ TheWrap.tokens[j] # <<>>
        /\ TheWrap.tokens[j][Len(TheWrap.tokens[j])] = i
        /\ TheWrap.tokens[k] # <<>>
        /\ TheWrap.tokens[k][1] = i + 1
        /\ \A m \in (j + 1)..(k - 1) : TheWrap.tokens[m] = <<>>

\* C5: every line break of the text is a hard boundary of the wrapped text,
\* for every max_width: the word before the break ends its line, the word
\* after it starts a later line, and the i-th break falls between the same
\* two words as in the text.
C5_BreaksAreBoundaries ==
    Invoked =>
        /\ WordsAccounted
        /\ \A i \in Breaks : i + 1 \in DOMAIN TheWords /\ BreakKept(i)

\* C5 witness: two words that would fit on one line are separated by a line
\* break in the text, and the wrapped text has them on different lines.
C5_Witness ==
    /\ Invoked
    /\ \E i \in Breaks :
          /\ Strip(TheWords[i]) # <<>>
          /\ Strip(TheWords[i + 1]) # <<>>
          /\ Measure(Strip(TheWords[i]) \o <<" ">> \o Strip(TheWords[i + 1])) < TheMaxWidth
          /\ BreakKept(i)

\* C6: the empty text wraps to a single empty line for every max_width, and
\* with max_width <= 0 a text of k space-separated words without line breaks
\* wraps to exactly k lines, the i-th line being the i-th word.
C6_DegenerateIsMinimal ==
    Invoked =>
        /\ TheCall.a.text = <<>> => _full_text = Some(<<>>)
        /\ (/\ TheMaxWidth <= 0
            /\ ~Contains(TheCall.a.text, "\n")
            /\ \A i \in DOMAIN TheWords : TheWords[i] # <<>>)
           => TheWrap.text_lines = TheWords

(***************************************************************************)
(* Origin and stroke width of the call made under SpecLayout               *)
(***************************************************************************)
TextWidth(c) == Val(c.bbox).box.right - Val(c.bbox).box.left

TextHeight(c) == Val(c.bbox).box.bottom - Val(c.bbox).box.top

ExpectedX(c) ==
    Half * c.a.x_shift +
    (IF c.a.horizontal_alignment = "left" THEN Half * c.a.padding
     ELSE IF c.a.horizontal_alignment = "center" THEN c.image.width - TextWidth(c)
     ELSE Half * (c.image.width - TextWidth(c) - c.a.padding))

ExpectedY(c) ==
    Half * c.a.y_shift +
    (IF c.a.vertical_alignment = "top" THEN Half * c.a.padding
     ELSE IF c.a.vertical_alignment = "middle" THEN c.image.height - TextHeight(c)
     ELSE Half * (c.image.height - TextHeight(c) - c.a.padding))

\* C7: on a call that does not reuse the layout the origin is
\* x = x_shift + (padding | (width - text_width) / 2 | width - text_width - padding)
\* and y = y_shift + (padding | (height - text_height) / 2 |
\* height - text_height - padding), unclamped; with left alignment x depends
\* on neither the canvas width nor the text width.  (Half pixels.)
C7_OriginFormula ==
    (Invoked /\ TheCall.placed) =>
        /\ TheCall.bbox # None
        /\ _x = Some(ExpectedX(TheCall))
        /\ _y = Some(ExpectedY(TheCall))
        /\ TheCall.draw # None => Val(TheCall.draw).xy = <<ExpectedX(TheCall), ExpectedY(TheCall)>>
        /\ TheCall.a.horizontal_alignment = "left" =>
               _x = Some(Half * (TheCall.a.padding + TheCall.a.x_shift))

\* C7 witness: a centred, bottom-aligned call whose free width is odd, so that
\* the x origin falls on half a pixel.
C7_Witness ==
    /\ Invoked
    /\ TheCall.placed
    /\ TheCall.a.horizontal_alignment = "center"
    /\ (TheCall.image.width - TextWidth(TheCall)) % 2 = 1
    /\ TheCall.a.vertical_alignment = "bottom"
    /\ Val(_x) = ExpectedX(TheCall)
    /\ Val(_x) % 2 = 1

\* C9 as stated: the stroke width used for the bounding box and for the draw
\* call is round(font_size x stroke_thickness x 0.5), the same in both places.
C9_StrokeWidthRounded ==
    (Invoked /\ TheCall.placed /\ TheCall.draw # None) =>
        LET w == RoundHalfEven(TheCall.a.font_size * TheCall.a.stroke_thickness,
                               ThicknessDen * 2)
        IN /\ Val(TheCall.bbox).stroke_width = w
           /\ Val(TheCall.draw).stroke_width = w

\* C9 amended: the stroke width used for the bounding box and for the draw
\* call is font_size x stroke_thickness x 0.5 truncated toward zero, the same
\* in both places.
C9_StrokeWidthTruncated ==
    (Invoked /\ TheCall.placed /\ TheCall.draw # None) =>
        LET w == (TheCall.a.font_size * TheCall.a.stroke_thickness) \div (ThicknessDen * 2)
        IN /\ Val(TheCall.bbox).stroke_width = w
           /\ Val(TheCall.draw).stroke_width = w

\* C9 witness: a call whose product has a fractional part above one half
\* (rounding and truncation differ) and a stroke at least one pixel wide.
C9_Witness ==
    /\ Invoked
    /\ TheCall.placed
    /\ TheCall.draw # None
    /\ 2 * ((TheCall.a.font_size * TheCall.a.stroke_thickness) % (ThicknessDen * 2))
          > ThicknessDen * 2
    /\ Val(TheCall.draw).stroke_width >= 1
    /\ Val(TheCall.bbox).stroke_width = Val(TheCall.draw).stroke_width

(***************************************************************************)
(* Colour of the call made under SpecColor                                 *)
(***************************************************************************)
Digits(hex) == LStripChar(hex, "#")

Channel(d, k) ==
    IF Len(d) \in {3, 4} THEN 17 * HexVal(d[k])
    ELSE 16 * HexVal(d[2 * k - 1]) + HexVal(d[2 * k])

HasAlpha(d) == Len(d) \in {4, 8}

WellFormed(d) == Len(d) \in {3, 4, 6, 8} /\ \A i \in DOMAIN d : d[i] \in HexChars

\* C8 as stated: for a colour of 3, 4, 6 or 8 hex digits r, g, b are its first
\* three bytes after nibble doubling and a is the fourth byte when there is
\* one, round(255 x opacity) otherwise; a 3-digit form and its doubled
\* 6-digit form parse alike.
C8_AlphaRounded ==
    (Invoked /\ WellFormed(Digits(TheCall.a.stroke_color_hex))) =>
        LET d == Digits(TheCall.a.stroke_color_hex)
            got == hex_to_rgba(TheCall.a.stroke_color_hex, TheCall.stroke_opacity)
        IN /\ got.error = ""
           /\ got.r = Channel(d, 1) /\ got.g = Channel(d, 2) /\ got.b = Channel(d, 3)
           /\ got.a = IF HasAlpha(d) THEN Channel(d, 4)
                      ELSE RoundHalfEven(255 * TheCall.stroke_opacity, OpacityDen)
           /\ TheCall.draw # None => Val(TheCall.draw).stroke_fill = got

\* C8 amended: as C8, with a = 255 x opacity truncated toward zero (not
\* rounded) when the colour has no alpha byte.
C8_AlphaTruncated ==
    (Invoked /\ WellFormed(Digits(TheCall.a.stroke_color_hex))) =>
        LET d == Digits(TheCall.a.stroke_color_hex)
            got == hex_to_rgba(TheCall.a.stroke_color_hex, TheCall.stroke_opacity)
        IN /\ got.error = ""
           /\ got.r = Channel(d, 1) /\ got.g = Channel(d, 2) /\ got.b = Channel(d, 3)
           /\ got.a = IF HasAlpha(d) THEN Channel(d, 4)
                      ELSE (255 * TheCall.stroke_opacity) \div OpacityDen
           /\ TheCall.draw # None => Val(TheCall.draw).stroke_fill = got
           /\ Len(d) = 3 =>
                  got = hex_to_rgba(DoubleChars(d), TheCall.stroke_opacity)

\* C8 witness: a 3-digit colour drawn with an opacity at which 255 x opacity
\* has fractional part one half, and the alpha drawn is the truncation.
C8_Witness ==
    /\ Invoked
    /\ Len(Digits(TheCall.a.stroke_color_hex)) = 3
    /\ TheCall.draw # None
    /\ (255 * TheCall.stroke_opacity) % OpacityDen = 5
    /\ Val(TheCall.draw).stroke_fill.a = (255 * TheCall.stroke_opacity) \div OpacityDen
    /\ Val(TheCall.draw).stroke_fill.r = 17 * HexVal(Digits(TheCall.a.stroke_color_hex)[1])

(***************************************************************************)
(* The layout cache across calls (Spec)                                    *)
(***************************************************************************)
Previous(i) == IF i > 1 THEN Some(Arguments(calls[i - 1])) ELSE prev

CacheEmpty(self) ==
    \/ self._loaded_font = None
    \/ self._full_text = None
    \/ self._x = None
    \/ self._y = None

ColoursOwn(c) ==
    c.draw # None =>
        /\ Val(c.draw).fill = hex_to_rgba(c.a.fill_color_hex, OpacityDen)
        /\ Val(c.draw).stroke_fill = hex_to_rgba(c.a.stroke_color_hex, c.stroke_opacity)

\* C10 as stated: a call that passes use_cache = False, or finds the cache
\* empty, or differs in any argument from the previous call, draws the layout
\* a fresh instance would compute from its own arguments; colours are
\* recomputed on every call.
C10_StaleNeverDrawn ==
    \A i \in DOMAIN calls :
        /\ ColoursOwn(calls[i])
        /\ (\/ calls[i].use_cache = FALSE
            \/ CacheEmpty(calls[i].before)
            \/ (Previous(i) # None /\ Val(Previous(i)) # Arguments(calls[i])))
           => (calls[i].draw # None /\ Layout(Val(calls[i].draw)) = FreshLayout(calls[i]))

\* C10 amended: a call that passes use_cache = False or finds the cache empty
\* draws the layout a fresh instance would compute from its own arguments; a
\* call that passes use_cache = True on a filled cache draws the cached layout
\* whatever its arguments; colours are recomputed on every call.
C10_RecomputeUnlessReuse ==
    \A i \in DOMAIN calls :
        /\ ColoursOwn(calls[i])
        /\ calls[i].draw # None
        /\ IF calls[i].use_cache = FALSE \/ CacheEmpty(calls[i].before)
           THEN Layout(Val(calls[i].draw)) = FreshLayout(calls[i])
           ELSE Layout(Val(calls[i].draw)) = CachedLayout(calls[i].before)

\* C10 witness: a call with use_cache = False on a filled cache holding
\* another text's layout, which it replaces by its own.
C10_Witness ==
    \E i \in DOMAIN calls :
        /\ calls[i].use_cache = FALSE
        /\ ~CacheEmpty(calls[i].before)
        /\ Val(calls[i].before._full_text) # Val(_full_text)
        /\ calls[i].draw # None
        /\ Val(calls[i].draw).text = Val(_full_text)
        /\ Layout(Val(calls[i].draw)) = FreshLayout(calls[i])

====
